---------------------------- MODULE Spec2Model ----------------------------
(***************************************************************************)
(* Model of plotter-magnetic-textures: the Lattice loader and its          *)
(* sublattice labeling (plot_spins/lattice.py), the Criteria predicates    *)
(* and colour rule tables (source/criteria.py) and the phase-diagram sweep *)
(* DataManager.set_data (source/data_manager.py).                          *)
(*                                                                         *)
(* Arrays indexed by atom are functions over 0 .. n_atoms-1; a zero-length *)
(* numpy array is the function with the empty domain.  Colours are kept as *)
(* their numerators over 255.  Spin components are integers (unit vectors  *)
(* along the axes), thresholds are compared by cross-multiplication.       *)
(***************************************************************************)
EXTENDS Integers, Sequences, FiniteSets, TLC

\* ------------------------------------------------------------------ bounds
\* largest atom count of the exhaustively enumerated neighbour graphs
MaxAtoms == 2
\* largest number of cells (rows times columns) of the sweep grid
MaxCells == 4

\* neighbours per atom in the structure file (columns 4..6 of a record)
NVecinos == 3

VARIABLES
    lattice,      \* the Lattice object at hand (fields of Lattice.__init__)
    bfs,          \* locals of a running set_sublattice: queue_nodes, checked
    phase,        \* position of the running operation
    calls,        \* completed set_sublattice calls on `lattice`
    labelsAfter,  \* label array observed at the return of each call
    dequeued,     \* atoms taken from queue_nodes during the running call
    enqueued,     \* atoms put on queue_nodes during the running call
    criteria,     \* the Criteria object: len, vecinos, sublattice, positions
    spinArg,      \* the spin array handed to the Criteria methods
    lastCall,     \* the latest method called and what it returned
    outcomes,     \* predicate outcomes a rule table is evaluated on
    color,        \* [table, value]: the rule table evaluated last, its colour
    fs,           \* the files on disk: the structure file, spin files by path
    var1_list,    \* DataManager.var1_list (values in thousandths)
    var2_list,    \* DataManager.var2_list
    classify,     \* the rule table passed to set_data
    data,         \* DataManager.data, data[j][k] a colour
    cell,         \* <<j, k>>: the grid cell the sweep is at
    sweeplog      \* cells at which set_sublattice, set_values, data writes ran

sublatVars == <<lattice, bfs, phase, calls, labelsAfter, dequeued, enqueued>>

critVars == <<criteria, spinArg, lastCall>>

ruleVars == <<outcomes, color>>

sweepVars == <<fs, var1_list, var2_list, classify, data, cell, sweeplog>>

vars == <<sublatVars, critVars, ruleVars, sweepVars>>

\* ------------------------------------------------------------ small helpers
Atoms(n) == 0 .. (n - 1)

Zeros3 == <<0, 0, 0>>

SetMax(S) == CHOOSE x \in S : \A y \in S : y <= x

SetMin(S) == CHOOSE x \in S : \A y \in S : x <= y

\* ----------------------------------------------------------------- Lattice
\* Lattice.__init__: every array zero-length, n_atoms = 0
NewLattice ==
    [ spins      |-> <<>>,
      position   |-> <<>>,
      vecinos    |-> <<>>,
      n_atoms    |-> 0,
      dimensions |-> Zeros3,
      size       |-> 0,
      sublattice |-> <<>> ]

\* np.amax(position, axis=0) - np.amin(position, axis=0)
Extent(position, n) ==
    [c \in 1..3 |-> SetMax({position[i][c] : i \in Atoms(n)})
                    - SetMin({position[i][c] : i \in Atoms(n)})]

\* A structure file: header atom count, then per atom a position and three
\* 1-based neighbour indices.  A spin file: one spin per line.  A path that
\* names no file is Missing.
Missing == [exists |-> FALSE]

SpinFile(lines) == [exists |-> TRUE, lines |-> lines]

\* load_files with the structure file read and stored before the spin file
\* is opened: a missing spin file is met after the arrays were reallocated
load_files_structure_first(lat, structure_file, spin_file) ==
    IF ~structure_file.exists
    THEN [lat |-> lat, raised |-> FALSE]
    ELSE LET n == structure_file.n_atoms
             realloc ==
                 [ lat EXCEPT
                     !.n_atoms    = n,
                     !.position   = [i \in Atoms(n) |-> structure_file.position[i + 1]],
                     !.sublattice = [i \in Atoms(n) |-> 0],
                     !.vecinos    = [i \in Atoms(n) |->
                                        [c \in 1..NVecinos |->
                                            structure_file.vecinos[i + 1][c] - 1]],
                     !.spins      = [i \in Atoms(n) |->
                                        IF spin_file.exists /\ i + 1 <= Len(spin_file.lines)
                                        THEN spin_file.lines[i + 1] ELSE Zeros3] ]
         IN  IF ~spin_file.exists THEN [lat |-> realloc, raised |-> FALSE]
             ELSE IF n = 0
             THEN [lat |-> realloc, raised |-> TRUE]
             ELSE LET dims == Extent(realloc.position, n)
                  IN  [lat |-> [realloc EXCEPT
                                   !.dimensions = dims,
                                   !.size = SetMax({dims[c] : c \in 1..3})],
                       raised |-> FALSE]

\* load_files.  Returns [lat, raised]: the Lattice after the call and whether
\* an exception left the call.  FileNotFoundError is caught and returns
\* before any field is assigned; an empty structure (header count 0) reaches
\* np.amax on a zero-size array, which raises ValueError after the arrays
\* were reallocated.
load_files(lat, structure_file, spin_file) ==
    IF ~structure_file.exists \/ ~spin_file.exists
    THEN [lat |-> lat, raised |-> FALSE]
    ELSE LET n == structure_file.n_atoms
             realloc ==
                 [ lat EXCEPT
                     !.n_atoms    = n,
                     !.position   = [i \in Atoms(n) |-> structure_file.position[i + 1]],
                     !.sublattice = [i \in Atoms(n) |-> 0],
                     !.vecinos    = [i \in Atoms(n) |->
                                        [c \in 1..NVecinos |->
                                            structure_file.vecinos[i + 1][c] - 1]],
                     !.spins      = [i \in Atoms(n) |->
                                        IF i + 1 <= Len(spin_file.lines)
                                        THEN spin_file.lines[i + 1] ELSE Zeros3] ]
         IN  IF n = 0
             THEN [lat |-> realloc, raised |-> TRUE]
             ELSE LET dims == Extent(realloc.position, n)
                  IN  [lat |-> [realloc EXCEPT
                                   !.dimensions = dims,
                                   !.size = SetMax({dims[c] : c \in 1..3})],
                       raised |-> FALSE]

\* ---------------------------------------------------------- set_sublattice
\* The traversal state: the label array being written, queue_nodes, checked.
\* set_sublattice indexes sublattice[0] first, so it raises IndexError on a
\* Lattice with no atoms.
CanSeed(lat) == 0 \in DOMAIN lat.sublattice

\* bfs_seed with atom 0 seeded on the other sublattice
bfs_seed_minus(lat) ==
    [ sublattice |-> [lat.sublattice EXCEPT ![0] = -1],
      queue      |-> <<0>>,
      checked    |-> [i \in Atoms(lat.n_atoms) |-> i = 0] ]

bfs_seed(lat) ==
    [ sublattice |-> [lat.sublattice EXCEPT ![0] = 1],
      queue      |-> <<0>>,
      checked    |-> [i \in Atoms(lat.n_atoms) |-> i = 0] ]

\* visit_vecino with the sign of the copied label lost
visit_vecino_same_sign(st, node, vecino) ==
    IF st.sublattice[vecino] # 0
    THEN [st EXCEPT !.sublattice[node] = st.sublattice[vecino]]
    ELSE IF ~st.checked[vecino]
         THEN [st EXCEPT !.queue = Append(st.queue, vecino),
                         !.checked[vecino] = TRUE]
         ELSE st

\* visit_vecino with `= -` written as `-=`
visit_vecino_subtract(st, node, vecino) ==
    IF st.sublattice[vecino] # 0
    THEN [st EXCEPT !.sublattice[node] = st.sublattice[node] - st.sublattice[vecino]]
    ELSE IF ~st.checked[vecino]
         THEN [st EXCEPT !.queue = Append(st.queue, vecino),
                         !.checked[vecino] = TRUE]
         ELSE st

\* visit_vecino that queues every unlabeled vecino it meets, marked or not
visit_vecino_requeue(st, node, vecino) ==
    IF st.sublattice[vecino] # 0
    THEN [st EXCEPT !.sublattice[node] = 0 - st.sublattice[vecino]]
    ELSE [st EXCEPT !.queue = Append(st.queue, vecino),
                    !.checked[vecino] = TRUE]

\* visit_vecino that keeps a label once the atom has one
visit_vecino_keep_first(st, node, vecino) ==
    IF st.sublattice[vecino] # 0
    THEN IF st.sublattice[node] = 0
         THEN [st EXCEPT !.sublattice[node] = 0 - st.sublattice[vecino]]
         ELSE st
    ELSE IF ~st.checked[vecino]
         THEN [st EXCEPT !.queue = Append(st.queue, vecino),
                         !.checked[vecino] = TRUE]
         ELSE st

\* body of `for vecino in self.vecinos[node]` for one vecino
visit_vecino(st, node, vecino) ==
    IF st.sublattice[vecino] # 0
    THEN [st EXCEPT !.sublattice[node] = 0 - st.sublattice[vecino]]
    ELSE IF ~st.checked[vecino]
         THEN [st EXCEPT !.queue = Append(st.queue, vecino),
                         !.checked[vecino] = TRUE]
         ELSE st

RECURSIVE visit_vecinos(_, _, _, _)
visit_vecinos(st, node, vec, c) ==
    IF c > Len(vec) THEN st
    ELSE visit_vecinos(visit_vecino(st, node, vec[c]), node, vec, c + 1)

\* one iteration of `while not queue_nodes.empty()`
bfs_step(st, vecinos) ==
    LET node == Head(st.queue)
    IN  visit_vecinos([st EXCEPT !.queue = Tail(st.queue)], node, vecinos[node], 1)

RECURSIVE bfs_run(_, _)
bfs_run(st, vecinos) ==
    IF st.queue = <<>> THEN st ELSE bfs_run(bfs_step(st, vecinos), vecinos)

\* the whole call, for callers that run it as one step
set_sublattice(lat) ==
    [lat EXCEPT !.sublattice = bfs_run(bfs_seed(lat), lat.vecinos).sublattice]


\* ------------------------------------------------------------ vector algebra
\* length of a unit spin in the integer representation of spin components
SpinUnit == 1

Abs(x) == IF x < 0 THEN 0 - x ELSE x

Dot(a, b) == a[1] * b[1] + a[2] * b[2] + a[3] * b[3]

Cross(a, b) ==
    << a[2] * b[3] - a[3] * b[2],
       a[3] * b[1] - a[1] * b[3],
       a[1] * b[2] - a[2] * b[1] >>

VAdd(a, b) == <<a[1] + b[1], a[2] + b[2], a[3] + b[3]>>

VSub(a, b) == <<a[1] - b[1], a[2] - b[2], a[3] - b[3]>>

VNeg(a) == <<0 - a[1], 0 - a[2], 0 - a[3]>>

\* np.sum([f[n] for n in range(len)])
RECURSIVE SumUpTo(_, _)
SumUpTo(f, n) == IF n = 0 THEN 0 ELSE SumUpTo(f, n - 1) + f[n - 1]

\* ---------------------------------------------------------------- Criteria
\* Criteria.__init__
NewCriteria == [len |-> 0, vecinos |-> <<>>, sublattice |-> <<>>, positions |-> <<>>]

\* Criteria.set_values: the four fields are rebound to the arguments
set_values(ctx, n_atoms, vecinos, sublattice, positions) ==
    [ctx EXCEPT !.len = n_atoms, !.vecinos = vecinos,
                !.sublattice = sublattice, !.positions = positions]

\* spins[n] for n in range(self.len) raises IndexError past the array's end
CanIndex(ctx, spins) == Atoms(ctx.len) \subseteq DOMAIN spins

\* is_ferro_z_aligned with the absolute value taken inside the sum
is_ferro_z_abs_inside(ctx, spins) ==
    LET mag_z == SumUpTo([n \in Atoms(ctx.len) |-> Abs(spins[n][3])], ctx.len)
    IN  100 * Abs(mag_z) > 99 * ctx.len * SpinUnit

\* |sum S.z| / len > 0.99
is_ferro_z_aligned(ctx, spins) ==
    LET mag_z == SumUpTo([n \in Atoms(ctx.len) |-> spins[n][3]], ctx.len)
    IN  100 * Abs(mag_z) > 99 * ctx.len * SpinUnit

\* is_antiferro_z_aligned without the sublattice factor
is_antiferro_z_unsigned(ctx, spins) ==
    LET mag_z == SumUpTo([n \in Atoms(ctx.len) |-> spins[n][3]], ctx.len)
    IN  100 * Abs(mag_z) > 99 * ctx.len * SpinUnit

\* |sum sublattice * S.z| / len > 0.99
is_antiferro_z_aligned(ctx, spins) ==
    LET mag_z == SumUpTo([n \in Atoms(ctx.len) |-> spins[n][3] * ctx.sublattice[n]],
                         ctx.len)
    IN  100 * Abs(mag_z) > 99 * ctx.len * SpinUnit

\* mag_z = |sum z| / len, mag = sqrt(mag_x^2 + mag_y^2 + mag_z^2) / len;
\* mag_z < 0.1 and mag > 0.9, both sides squared and cleared of divisions
is_ferro_xy_aligned(ctx, spins) ==
    LET n == ctx.len
        mag_x == SumUpTo([a \in Atoms(n) |-> spins[a][1]], n)
        mag_y == SumUpTo([a \in Atoms(n) |-> spins[a][2]], n)
        sum_z == Abs(SumUpTo([a \in Atoms(n) |-> spins[a][3]], n))
    IN  /\ 10 * sum_z < n * SpinUnit
        /\ 100 * (n * n * (mag_x * mag_x + mag_y * mag_y) + sum_z * sum_z)
               > 81 * n * n * n * n * SpinUnit * SpinUnit

is_antiferro_xy_aligned(ctx, spins) ==
    LET n == ctx.len
        mag_x == SumUpTo([a \in Atoms(n) |-> spins[a][1] * ctx.sublattice[a]], n)
        mag_y == SumUpTo([a \in Atoms(n) |-> spins[a][2] * ctx.sublattice[a]], n)
        sum_z == SumUpTo([a \in Atoms(n) |-> spins[a][3] * ctx.sublattice[a]], n)
    IN  /\ 10 * Abs(sum_z) < n * SpinUnit
        /\ 100 * (n * n * (mag_x * mag_x + mag_y * mag_y) + sum_z * sum_z)
               > 81 * n * n * n * n * SpinUnit * SpinUnit

\* is_xyz_aligned whose in-plane test compares S.z, not |S.z|, with 0.05
is_xyz_aligned_signed(ctx, spins) ==
    LET n == ctx.len
        counter_z  == Cardinality({a \in Atoms(n) : 100 * Abs(spins[a][3]) > 95 * SpinUnit})
        counter_xy == Cardinality({a \in Atoms(n) : 100 * spins[a][3] < 5 * SpinUnit})
    IN  << 10 * counter_z > 7 * n, 10 * counter_xy > 8 * n >>

\* returns <<is_z_aligned, is_xy_aligned>>
is_xyz_aligned(ctx, spins) ==
    LET n == ctx.len
        counter_z  == Cardinality({a \in Atoms(n) : 100 * Abs(spins[a][3]) > 95 * SpinUnit})
        counter_xy == Cardinality({a \in Atoms(n) : 100 * Abs(spins[a][3]) < 5 * SpinUnit})
    IN  << 10 * counter_z > 7 * n, 10 * counter_xy > 8 * n >>

\* sum over the vecinos of atom a of spins[a] . spins[m]
VecinoDots(ctx, spins, a) ==
    SumUpTo([c \in 0..(NVecinos - 1) |-> Dot(spins[a], spins[ctx.vecinos[a][c + 1]])],
            NVecinos)

\* returns <<is_ferro, is_antiferro>>; called with len > 0 (the integer
\* division by self.len at 191 raises ZeroDivisionError on an unbound context)
is_local_ferro_antiferro(ctx, spins) ==
    LET n == ctx.len
        ferro ==
            {a \in Atoms(n) :
                100 * VecinoDots(ctx, spins, a) > 99 * NVecinos * SpinUnit * SpinUnit}
        antiferro ==
            {a \in Atoms(n) :
                /\ a \notin ferro
                /\ 100 * VecinoDots(ctx, spins, a) < 0 - 99 * NVecinos * SpinUnit * SpinUnit}
    IN  << 100 * Cardinality(ferro) > 65 * n, 100 * Cardinality(antiferro) > 65 * n >>

\* the scan of domain_wall_ferro_z_align from atom i on, with the running
\* minima of spin_up.dot(spin_i) and spin_down.dot(spin_i)
\* domain_wall_atom with min_down taken from the current atom alone
domain_wall_atom_down_unkept(spins, i, min_up, min_down) ==
    [ min_up   |-> IF spins[i][3] < min_up THEN spins[i][3] ELSE min_up,
      min_down |-> 0 - spins[i][3] ]

\* lines 220-221: the running minima after atom i of the +1 sublattice
domain_wall_atom(spins, i, min_up, min_down) ==
    [ min_up   |-> IF spins[i][3] < min_up THEN spins[i][3] ELSE min_up,
      min_down |-> IF 0 - spins[i][3] < min_down THEN 0 - spins[i][3] ELSE min_down ]

RECURSIVE domain_wall_scan(_, _, _, _, _)
domain_wall_scan(ctx, spins, i, min_up, min_down) ==
    IF i >= ctx.len THEN FALSE
    ELSE IF ctx.sublattice[i] = 1
         THEN LET m == domain_wall_atom(spins, i, min_up, min_down)
              IN  IF 10 * m.min_up < 0 - 9 * SpinUnit /\ 10 * m.min_down < 0 - 9 * SpinUnit
                  THEN TRUE
                  ELSE domain_wall_scan(ctx, spins, i + 1, m.min_up, m.min_down)
         ELSE domain_wall_scan(ctx, spins, i + 1, min_up, min_down)

domain_wall_ferro_z_align(ctx, spins) ==
    domain_wall_scan(ctx, spins, 0, SpinUnit, SpinUnit)

\* |sum over atoms of the mean vecino dot product| < 0.01
is_random(ctx, spins) ==
    LET dot_value == SumUpTo([a \in Atoms(ctx.len) |-> VecinoDots(ctx, spins, a)], ctx.len)
    IN  100 * Abs(dot_value) < NVecinos * SpinUnit * SpinUnit

\* is_conical.  The scan state holds the arrays the loop can reach: the
\* caller's spins, self.positions and the locals rotation_vec, traslation_vec
\* and count.  `rotation_vec += cross_vec` and `traslation_vec += r_vec` write
\* the locals in place; `-1.*cross_vec` and `-1.*r_vec` build new arrays.
conical_start(ctx, spins) ==
    [ spins          |-> spins,
      positions      |-> ctx.positions,
      rotation_vec   |-> Zeros3,
      traslation_vec |-> Zeros3,
      count          |-> 0 ]

\* conical_pair with the sign flip of the cross product written into the
\* row of the spin array it was computed from
conical_pair_in_place(st, vecinos, i, j) ==
    LET cross_vec == Cross(st.spins[i], st.spins[j])
        flip      == Dot(cross_vec, st.rotation_vec) < 0
        oriented  == IF flip THEN VNeg(cross_vec) ELSE cross_vec
        st1       == IF flip THEN [st EXCEPT !.spins[i] = VNeg(st.spins[i])] ELSE st
    IN  IF 10000 * Dot(cross_vec, cross_vec) > SpinUnit * SpinUnit * SpinUnit * SpinUnit
        THEN [st1 EXCEPT !.rotation_vec = VAdd(st.rotation_vec, oriented),
                         !.count = st.count + 1]
        ELSE LET r_vec == VSub(st.positions[i], st.positions[j])
                 r_up  == IF r_vec[2] < 0 THEN VNeg(r_vec) ELSE r_vec
             IN  [st1 EXCEPT !.traslation_vec = VAdd(st.traslation_vec, r_up)]

\* conical_pair without the sign flip of the cross product
conical_pair_unflipped(st, vecinos, i, j) ==
    LET cross_vec == Cross(st.spins[i], st.spins[j])
    IN  IF 10000 * Dot(cross_vec, cross_vec) > SpinUnit * SpinUnit * SpinUnit * SpinUnit
        THEN [st EXCEPT !.rotation_vec = VAdd(st.rotation_vec, cross_vec),
                        !.count = st.count + 1]
        ELSE LET r_vec == VSub(st.positions[i], st.positions[j])
                 r_up  == IF r_vec[2] < 0 THEN VNeg(r_vec) ELSE r_vec
             IN  [st EXCEPT !.traslation_vec = VAdd(st.traslation_vec, r_up)]

\* body of `for j in self.vecinos[i]` for one j
conical_pair(st, vecinos, i, j) ==
    LET cross_vec == Cross(st.spins[i], st.spins[j])
        oriented  == IF Dot(cross_vec, st.rotation_vec) < 0
                     THEN VNeg(cross_vec) ELSE cross_vec
    IN  IF 10000 * Dot(cross_vec, cross_vec) > SpinUnit * SpinUnit * SpinUnit * SpinUnit
        THEN [st EXCEPT !.rotation_vec = VAdd(st.rotation_vec, oriented),
                        !.count = st.count + 1]
        ELSE LET r_vec == VSub(st.positions[i], st.positions[j])
                 r_up  == IF r_vec[2] < 0 THEN VNeg(r_vec) ELSE r_vec
             IN  [st EXCEPT !.traslation_vec = VAdd(st.traslation_vec, r_up)]

\* the double loop from atom i, vecino column c on; zip(spins, positions)
\* stops at the shorter of the two arrays
RECURSIVE conical_scan(_, _, _, _)
conical_scan(st, vecinos, i, c) ==
    IF i \notin DOMAIN st.spins \/ i \notin DOMAIN st.positions THEN st
    ELSE IF c > NVecinos THEN conical_scan(st, vecinos, i + 1, 1)
    ELSE conical_scan(conical_pair(st, vecinos, i, vecinos[i][c]), vecinos, i, c + 1)

\* the states the double loop goes through from atom i, vecino column c on,
\* one per neighbour pair, after the state it starts from
RECURSIVE conical_steps(_, _, _, _)
conical_steps(st, vecinos, i, c) ==
    IF i \notin DOMAIN st.spins \/ i \notin DOMAIN st.positions THEN <<st>>
    ELSE IF c > NVecinos THEN conical_steps(st, vecinos, i + 1, 1)
    ELSE <<st>> \o conical_steps(conical_pair(st, vecinos, i, vecinos[i][c]),
                                 vecinos, i, c + 1)

\* line 297, as the fraction sum / over in units of 1 / |rotation_vec| (the
\* accumulated, not yet normalised vector): np.sum of |S_i . rotation_vec|
\* over the spins, divided by count
mean_dot_value(st) ==
    LET n == Cardinality(DOMAIN st.spins)
    IN  [ sum  |-> SumUpTo([a \in Atoms(n) |-> Abs(Dot(st.spins[a], st.rotation_vec))], n),
          over |-> st.count ]

\* lines 294-310 on the scanned state: mean and max of |S_i . rotation_vec|
\* against 0.1, with rotation_vec normalised; the mean divides by count.
\* Returns the two booleans with the arrays as the call leaves them.
conical_result(st) ==
    LET r     == st.rotation_vec
        rr    == Dot(r, r)
        n     == Cardinality(DOMAIN st.spins)
        mean  == mean_dot_value(st)
    IN  [ locally   |-> /\ st.count > 0
                        /\ 100 * mean.sum * mean.sum
                               < SpinUnit * SpinUnit * mean.over * mean.over * rr,
          globally  |-> /\ st.count > 0
                        /\ rr > 0
                        /\ \A a \in Atoms(n) :
                               100 * Dot(st.spins[a], r) * Dot(st.spins[a], r)
                                   < SpinUnit * SpinUnit * rr,
          spins     |-> st.spins,
          positions |-> st.positions ]

is_conical_exec(ctx, spins) ==
    conical_result(conical_scan(conical_start(ctx, spins), ctx.vecinos, 0, 1))

\* returns <<is_locally_conical, is_globally_conical>>
is_conical(ctx, spins) ==
    LET r == is_conical_exec(ctx, spins) IN <<r.locally, r.globally>>

\* ------------------------------------------------------------- rule tables
\* colours, as numerators over 255
Black     == <<0, 0, 0>>
White     == <<255, 255, 255>>
Cyan      == <<113, 255, 240>>
LightGreen == <<194, 255, 113>>
Lavender  == <<177, 113, 255>>
LightRed  == <<255, 113, 113>>
Yellow    == <<255, 231, 113>>
Green     == <<113, 255, 133>>
Pink      == <<255, 113, 180>>
SkyBlue   == <<113, 193, 255>>
Orange    == <<255, 150, 113>>
DarkGreen == <<50, 194, 78>>

\* walls_table with the domain-wall rules tested before the four main phases
walls_table_walls_first(o) ==
    IF o.antiferro_local /\ ~o.z_aligned /\ ~o.xy_aligned THEN Cyan
    ELSE IF o.z_aligned /\ ~o.ferro_local /\ ~o.antiferro_local THEN LightGreen
    ELSE IF o.xy_aligned /\ ~o.ferro_local /\ ~o.antiferro_local THEN Lavender
    ELSE IF o.ferro_local /\ ~o.z_aligned /\ ~o.xy_aligned THEN LightRed
    ELSE IF o.ferro_local /\ o.z_aligned /\ o.domain_wall THEN Orange
    ELSE IF o.antiferro_local /\ o.z_aligned /\ o.domain_wall THEN DarkGreen
    ELSE IF o.ferro_in_z THEN Yellow
    ELSE IF o.antiferro_in_z THEN Green
    ELSE IF o.ferro_in_xy THEN Pink
    ELSE IF o.antiferro_in_xy THEN SkyBlue
    ELSE IF o.random THEN Black
    ELSE White

\* the if/elif chain of data_ferro_and_align_with_domain_walls (343-392) on
\* the outcomes of the predicates it has evaluated
walls_table(o) ==
    IF o.antiferro_local /\ ~o.z_aligned /\ ~o.xy_aligned THEN Cyan
    ELSE IF o.z_aligned /\ ~o.ferro_local /\ ~o.antiferro_local THEN LightGreen
    ELSE IF o.xy_aligned /\ ~o.ferro_local /\ ~o.antiferro_local THEN Lavender
    ELSE IF o.ferro_local /\ ~o.z_aligned /\ ~o.xy_aligned THEN LightRed
    ELSE IF o.ferro_in_z THEN Yellow
    ELSE IF o.antiferro_in_z THEN Green
    ELSE IF o.ferro_in_xy THEN Pink
    ELSE IF o.antiferro_in_xy THEN SkyBlue
    ELSE IF o.ferro_local /\ o.z_aligned /\ o.domain_wall THEN Orange
    ELSE IF o.antiferro_local /\ o.z_aligned /\ o.domain_wall THEN DarkGreen
    ELSE IF o.random THEN Black
    ELSE White

\* skyrmions_table with the two conical rules in the opposite order
skyrmions_table_local_first(o) ==
    IF o.ferro_in_z THEN Yellow
    ELSE IF o.antiferro_in_z THEN Green
    ELSE IF o.ferro_in_xy THEN Pink
    ELSE IF o.antiferro_in_xy THEN SkyBlue
    ELSE IF o.locally_conical THEN LightRed
    ELSE IF o.globally_conical THEN Lavender
    ELSE White

\* skyrmions_table without its final else: the colour keeps the value it was
\* initialised with at line 417
skyrmions_table_no_else(o) ==
    IF o.ferro_in_z THEN Yellow
    ELSE IF o.antiferro_in_z THEN Green
    ELSE IF o.ferro_in_xy THEN Pink
    ELSE IF o.antiferro_in_xy THEN SkyBlue
    ELSE IF o.globally_conical THEN Lavender
    ELSE IF o.locally_conical THEN LightRed
    ELSE Black

\* the if/elif chain of data_ferro_spiral_skyrmions (417-449)
skyrmions_table(o) ==
    IF o.ferro_in_z THEN Yellow
    ELSE IF o.antiferro_in_z THEN Green
    ELSE IF o.ferro_in_xy THEN Pink
    ELSE IF o.antiferro_in_xy THEN SkyBlue
    ELSE IF o.globally_conical THEN Lavender
    ELSE IF o.locally_conical THEN LightRed
    ELSE White

\* the predicate outcomes either table can consult
OutcomeNames ==
    { "ferro_local", "antiferro_local", "z_aligned", "xy_aligned", "domain_wall",
      "ferro_in_z", "ferro_in_xy", "antiferro_in_z", "antiferro_in_xy", "random",
      "locally_conical", "globally_conical" }

\* lines 332-341: the eight predicate calls of the first table
walls_outcomes(ctx, spins) ==
    LET local == is_local_ferro_antiferro(ctx, spins)
        xyz   == is_xyz_aligned(ctx, spins)
    IN  [ ferro_local     |-> local[1],
          antiferro_local |-> local[2],
          z_aligned       |-> xyz[1],
          xy_aligned      |-> xyz[2],
          domain_wall     |-> domain_wall_ferro_z_align(ctx, spins),
          ferro_in_z      |-> is_ferro_z_aligned(ctx, spins),
          ferro_in_xy     |-> is_ferro_xy_aligned(ctx, spins),
          antiferro_in_z  |-> is_antiferro_z_aligned(ctx, spins),
          antiferro_in_xy |-> is_antiferro_xy_aligned(ctx, spins),
          random          |-> is_random(ctx, spins) ]

\* lines 410-415: the five predicate calls of the second table
skyrmions_outcomes(ctx, spins) ==
    LET conical == is_conical(ctx, spins)
    IN  [ ferro_in_z       |-> is_ferro_z_aligned(ctx, spins),
          ferro_in_xy      |-> is_ferro_xy_aligned(ctx, spins),
          antiferro_in_z   |-> is_antiferro_z_aligned(ctx, spins),
          antiferro_in_xy  |-> is_antiferro_xy_aligned(ctx, spins),
          locally_conical  |-> conical[1],
          globally_conical |-> conical[2] ]

data_ferro_and_align_with_domain_walls(ctx, spins) ==
    walls_table(walls_outcomes(ctx, spins))

data_ferro_spiral_skyrmions(ctx, spins) ==
    skyrmions_table(skyrmions_outcomes(ctx, spins))

\* ------------------------------------------------------- structure files
\* position column of record `line` (1-based) in the generated files
PositionOf(line) == <<line - 1, (line - 1) % 2, 0>>

StructureFile(n, vec) ==
    [ exists   |-> TRUE,
      n_atoms  |-> n,
      position |-> [line \in 1..n |-> PositionOf(line)],
      vecinos  |-> vec ]

\* the neighbour columns of every structure file on n atoms: NVecinos
\* in-range 1-based indices per atom
AllVecinos(n) == [1..n -> [1..NVecinos -> 1..n]]

\* two atoms, each the only neighbour of the other
PairFile == StructureFile(2, << <<2, 2, 2>>, <<1, 1, 1>> >>)

\* four atoms, each adjacent to the three others (odd cycles)
TetraFile ==
    StructureFile(4, << <<2, 3, 4>>, <<1, 3, 4>>, <<1, 2, 4>>, <<1, 2, 3>> >>)

\* six atoms of a honeycomb cell with periodic boundaries: atoms 1..3 are
\* adjacent to atoms 4..6 (bipartite, three neighbours each)
HoneycombFile ==
    StructureFile(6, << <<4, 5, 6>>, <<5, 6, 4>>, <<6, 4, 5>>,
                        <<1, 2, 3>>, <<2, 3, 1>>, <<3, 1, 2>> >>)

\* a file whose header announces no atoms
EmptyFile == StructureFile(0, <<>>)

NamedStructures == {PairFile, TetraFile, HoneycombFile}

NoSpins == SpinFile(<<>>)

\* ------------------------------------------- labeling a loaded Lattice
NoBfs == [sublattice |-> <<>>, queue |-> <<>>, checked |-> <<>>]

NoCall == [name |-> "none", result |-> <<>>]

NoColor == [table |-> "none", value |-> <<>>]

NoLog == [opened |-> <<>>, labeled |-> <<>>, bound |-> <<>>, written |-> <<>>]

\* the parts of the state an operation under study does not involve
SublatticeIdle ==
    /\ bfs = NoBfs
    /\ calls = 0
    /\ labelsAfter = <<>>
    /\ dequeued = <<>>
    /\ enqueued = <<>>

CriteriaIdle == lastCall = NoCall /\ spinArg = <<>>

RulesIdle == outcomes = <<>> /\ color = NoColor

SweepIdle ==
    /\ fs = <<>>
    /\ var1_list = <<>>
    /\ var2_list = <<>>
    /\ classify = "none"
    /\ data = <<>>
    /\ cell = <<0, 0>>
    /\ sweeplog = NoLog

InitSublattice ==
    /\ \/ \E n \in 1..MaxAtoms : \E vec \in AllVecinos(n) :
             lattice = load_files(NewLattice, StructureFile(n, vec), NoSpins).lat
       \/ \E f \in NamedStructures :
             lattice = load_files(NewLattice, f, NoSpins).lat
    /\ phase = "idle"
    /\ criteria = NewCriteria
    /\ SublatticeIdle /\ CriteriaIdle /\ RulesIdle /\ SweepIdle

\* lattice.py 134-140: locals created, atom 0 seeded and queued.  The label
\* array is the Lattice's own array, written in place.
SublatticeBegin ==
    /\ phase = "idle"
    /\ calls < 2
    /\ CanSeed(lattice)
    /\ bfs' = bfs_seed(lattice)
    /\ lattice' = [lattice EXCEPT !.sublattice = bfs'.sublattice]
    /\ phase' = "running"
    /\ dequeued' = <<>>
    /\ enqueued' = <<0>>
    /\ UNCHANGED <<calls, labelsAfter, critVars, ruleVars, sweepVars>>

\* lattice.py 145-152: one iteration of the while loop
SublatticeStep ==
    /\ phase = "running"
    /\ bfs.queue # <<>>
    /\ bfs' = bfs_step(bfs, lattice.vecinos)
    /\ lattice' = [lattice EXCEPT !.sublattice = bfs'.sublattice]
    /\ dequeued' = Append(dequeued, Head(bfs.queue))
    /\ enqueued' = enqueued \o SubSeq(bfs'.queue, Len(bfs.queue), Len(bfs'.queue))
    /\ UNCHANGED <<phase, calls, labelsAfter, critVars, ruleVars, sweepVars>>

\* the loop condition fails: the call returns
SublatticeReturn ==
    /\ phase = "running"
    /\ bfs.queue = <<>>
    /\ phase' = "idle"
    /\ calls' = calls + 1
    /\ labelsAfter' = Append(labelsAfter, lattice.sublattice)
    /\ bfs' = NoBfs
    /\ UNCHANGED <<lattice, dequeued, enqueued, critVars, ruleVars, sweepVars>>

NextSublattice == SublatticeBegin \/ SublatticeStep \/ SublatticeReturn

SpecSublattice == InitSublattice /\ [][NextSublattice]_vars

\* The while loop keeps iterating while the queue is not empty and returns
\* when it is: a started call is not suspended.
FairSpecSublattice == SpecSublattice /\ WF_vars(NextSublattice)

\* ------------------------------------------- calling the Criteria methods
\* unit spins along the six axis directions
SpinVals ==
    { <<SpinUnit, 0, 0>>, <<0 - SpinUnit, 0, 0>>, <<0, SpinUnit, 0>>,
      <<0, 0 - SpinUnit, 0>>, <<0, 0, SpinUnit>>, <<0, 0, 0 - SpinUnit>> }

\* what DataManager.set_data does with a freshly loaded Lattice (49-54)
bind(ctx, lat) ==
    LET labeled == set_sublattice(lat)
    IN  [ lattice  |-> labeled,
          criteria |-> set_values(ctx, labeled.n_atoms, labeled.vecinos,
                                  labeled.sublattice, labeled.position) ]

\* a context bound to a loaded, labeled lattice and a spin array of its size
InitCriteria ==
    /\ \E f \in {PairFile, TetraFile} :
          LET b == bind(NewCriteria, load_files(NewLattice, f, NoSpins).lat)
          IN  /\ lattice = b.lattice
              /\ criteria = b.criteria
              /\ spinArg \in [Atoms(f.n_atoms) -> SpinVals]
    /\ lastCall = NoCall
    /\ phase = "idle"
    /\ SublatticeIdle /\ RulesIdle /\ SweepIdle

\* A method that only reads: the context and the caller's array stay as
\* they are, the return value is recorded.
Returns(name, result) ==
    /\ lastCall' = [name |-> name, result |-> result]
    /\ UNCHANGED <<criteria, spinArg, sublatVars, ruleVars, sweepVars>>

\* A method that runs the is_conical scan: the arrays are what the scan
\* leaves in them.
ReturnsAfterScan(name, result) ==
    LET r == is_conical_exec(criteria, spinArg)
    IN  /\ lastCall' = [name |-> name, result |-> result]
        /\ spinArg' = r.spins
        /\ criteria' = [criteria EXCEPT !.positions = r.positions]
        /\ UNCHANGED <<sublatVars, ruleVars, sweepVars>>

CallIsFerroZ == Returns("is_ferro_z_aligned", is_ferro_z_aligned(criteria, spinArg))

CallIsAntiferroZ ==
    Returns("is_antiferro_z_aligned", is_antiferro_z_aligned(criteria, spinArg))

CallIsFerroXY == Returns("is_ferro_xy_aligned", is_ferro_xy_aligned(criteria, spinArg))

CallIsAntiferroXY ==
    Returns("is_antiferro_xy_aligned", is_antiferro_xy_aligned(criteria, spinArg))

CallIsXYZ == Returns("is_xyz_aligned", is_xyz_aligned(criteria, spinArg))

CallIsLocal ==
    Returns("is_local_ferro_antiferro", is_local_ferro_antiferro(criteria, spinArg))

CallDomainWall ==
    Returns("domain_wall_ferro_z_align", domain_wall_ferro_z_align(criteria, spinArg))

CallIsRandom == Returns("is_random", is_random(criteria, spinArg))

CallIsConical == ReturnsAfterScan("is_conical", is_conical(criteria, spinArg))

CallDataWalls ==
    Returns("data_ferro_and_align_with_domain_walls",
            data_ferro_and_align_with_domain_walls(criteria, spinArg))

CallDataSkyrmions ==
    ReturnsAfterScan("data_ferro_spiral_skyrmions",
                     data_ferro_spiral_skyrmions(criteria, spinArg))

NextCriteria ==
    \/ CallIsFerroZ \/ CallIsAntiferroZ \/ CallIsFerroXY \/ CallIsAntiferroXY
    \/ CallIsXYZ \/ CallIsLocal \/ CallDomainWall \/ CallIsRandom \/ CallIsConical
    \/ CallDataWalls \/ CallDataSkyrmions

SpecCriteria == InitCriteria /\ [][NextCriteria]_vars

\* ------------------------------ the z predicates on the perfect textures
\* every spin equal to (0, 0, 1)
FerroTexture(n) == [a \in Atoms(n) |-> <<0, 0, SpinUnit>>]

\* spin a equal to labels[a] * (0, 0, 1)
NeelTexture(labels) == [a \in DOMAIN labels |-> <<0, 0, labels[a] * SpinUnit>>]

\* a context bound to a loaded lattice labeled by set_sublattice, and one of
\* the two perfect textures on it
TextureOn(f) ==
    LET b == bind(NewCriteria, load_files(NewLattice, f, NoSpins).lat)
    IN  /\ lattice = b.lattice
        /\ criteria = b.criteria
        /\ spinArg \in {FerroTexture(b.criteria.len), NeelTexture(b.criteria.sublattice)}

InitTextures ==
    /\ \/ \E n \in 1..MaxAtoms : \E vec \in AllVecinos(n) :
             TextureOn(StructureFile(n, vec))
       \/ \E f \in NamedStructures : TextureOn(f)
    /\ lastCall = NoCall
    /\ phase = "idle"
    /\ SublatticeIdle /\ RulesIdle /\ SweepIdle

NextTextures == CallIsFerroZ \/ CallIsAntiferroZ

SpecTextures == InitTextures /\ [][NextTextures]_vars

\* C8: no Criteria predicate and neither rule table changes the bound
\* context (len, vecinos, sublattice, positions) or the spin array it is
\* given, and a method called again on the same spins returns what it
\* returned before.
C8_CallsLeaveContextAndSpins ==
    [][ /\ criteria' = criteria
        /\ spinArg' = spinArg
        /\ lastCall'.name = lastCall.name => lastCall'.result = lastCall.result ]_vars

\* is_conical has scanned spins whose cross products had to be flipped
C8_Witness ==
    /\ lastCall.name = "is_conical"
    /\ criteria.len = 4
    /\ \E a \in Atoms(4) : \E c \in 1..NVecinos :
          LET x == Cross(spinArg[a], spinArg[criteria.vecinos[a][c]])
          IN  Dot(x, x) > 0 /\ Dot(x, <<1, 1, 1>>) < 0

\* --------------------------------------------- evaluating the rule tables
InitRules ==
    /\ outcomes \in [OutcomeNames -> BOOLEAN]
    /\ color = NoColor
    /\ lattice = NewLattice
    /\ criteria = NewCriteria
    /\ phase = "idle"
    /\ SublatticeIdle /\ CriteriaIdle /\ SweepIdle

\* criteria.py 343-392 on the outcomes computed at 332-341
EvalWalls ==
    /\ color' = [table |-> "walls", value |-> walls_table(outcomes)]
    /\ UNCHANGED <<outcomes, sublatVars, critVars, sweepVars>>

\* criteria.py 417-449 on the outcomes computed at 410-415
EvalSkyrmions ==
    /\ color' = [table |-> "skyrmions", value |-> skyrmions_table(outcomes)]
    /\ UNCHANGED <<outcomes, sublatVars, critVars, sweepVars>>

NextRules == EvalWalls \/ EvalSkyrmions

SpecRules == InitRules /\ [][NextRules]_vars

\* ------------------------------------------------------------ PathManager
\* Strings are sequences of characters.  The names handed to PathManager:
dir_prefix == <<"x", "/">>

name_prefix == <<"o", "u", "t">>

var1_name == <<"_", "D", "M">>

var2_name == <<"_", "K">>

Digits == <<"0", "1", "2", "3", "4", "5", "6", "7", "8", "9">>

RECURSIVE NatToStr(_)
NatToStr(m) ==
    IF m < 10 THEN <<Digits[m + 1]>>
    ELSE NatToStr(m \div 10) \o <<Digits[(m % 10) + 1]>>

\* var_to_str with var_format "{:.3f}", on a value given in thousandths
var_to_str(v) ==
    LET m == Abs(v)
    IN  (IF v < 0 THEN <<"-">> ELSE <<>>)
        \o NatToStr(m \div 1000) \o <<".">>
        \o <<Digits[((m \div 100) % 10) + 1], Digits[((m \div 10) % 10) + 1],
             Digits[(m % 10) + 1]>>

\* get_file_path that joins dir_prefix and the file name directly
get_file_path_unseparated(folder, var1, var2) ==
    LET dir_path  == dir_prefix \o folder
        file_name == name_prefix \o var1_name \o var_to_str(var1)
                     \o var2_name \o var_to_str(var2)
    IN  dir_path \o file_name

get_file_path(folder, var1, var2) ==
    LET dir_path  == dir_prefix \o folder \o <<"/">>
        file_name == name_prefix \o var1_name \o var_to_str(var1)
                     \o var2_name \o var_to_str(var2)
    IN  dir_path \o file_name

\* data_manager.py 45: the spin file of a grid point
spin_file_path(var1, var2) ==
    get_file_path(<<>>, var1, var2) \o <<"_", "s", "p", "i", "n">>

\* ------------------------------------------------------------- DataManager
\* open(path): the file at the path, Missing when there is none
open_spin(fsys, path) == IF path \in DOMAIN fsys.spin THEN fsys.spin[path] ELSE Missing

\* the callable handed to set_data, applied to a spin array
apply_classify(fn, ctx, spins) ==
    IF fn = "data_ferro_spiral_skyrmions"
    THEN data_ferro_spiral_skyrmions(ctx, spins)
    ELSE data_ferro_and_align_with_domain_walls(ctx, spins)

\* cell_body binding the context at every cell, not only while len = 0
cell_body_always_bind(ctx, fsys, var1, var2, fn) ==
    LET file == spin_file_path(var1, var2)
        ld == load_files(NewLattice, fsys.structure, open_spin(fsys, file))
        quiet == [raised |-> TRUE, lattice |-> ld.lat, criteria |-> ctx, file |-> file,
                  labeled |-> FALSE, bound |-> FALSE, colour |-> <<>>]
    IN  IF ld.raised THEN quiet
        ELSE IF ~CanSeed(ld.lat) THEN quiet
        ELSE LET b == bind(ctx, ld.lat)
             IN  [ raised |-> FALSE, lattice |-> b.lattice, criteria |-> b.criteria,
                   file |-> file, labeled |-> TRUE, bound |-> TRUE,
                   colour |-> apply_classify(fn, b.criteria, b.lattice.spins) ]

\* Lines 42-56 up to the value assigned to data[j][k]: a new Lattice is
\* loaded, the context is labeled and bound while criteria.len is 0, the
\* callable is applied to the spins.  `raised` tells that an exception left
\* the body: ValueError from load_files, IndexError from set_sublattice on a
\* Lattice without atoms, IndexError from the callable indexing a spin
\* array shorter than criteria.len.
cell_body(ctx, fsys, var1, var2, fn) ==
    LET file == spin_file_path(var1, var2)
        ld == load_files(NewLattice, fsys.structure, open_spin(fsys, file))
        quiet == [raised |-> TRUE, lattice |-> ld.lat, criteria |-> ctx, file |-> file,
                  labeled |-> FALSE, bound |-> FALSE, colour |-> <<>>]
    IN  IF ld.raised THEN quiet
        ELSE IF ctx.len = 0 /\ ~CanSeed(ld.lat) THEN quiet
        ELSE LET first == ctx.len = 0
                 b == IF first THEN bind(ctx, ld.lat)
                      ELSE [lattice |-> ld.lat, criteria |-> ctx]
             IN  IF ~CanIndex(b.criteria, b.lattice.spins)
                 THEN [ raised |-> TRUE, lattice |-> b.lattice, criteria |-> b.criteria,
                        file |-> file, labeled |-> first, bound |-> first, colour |-> <<>> ]
                 ELSE [ raised |-> FALSE, lattice |-> b.lattice, criteria |-> b.criteria,
                        file |-> file, labeled |-> first, bound |-> first,
                        colour |-> apply_classify(fn, b.criteria, b.lattice.spins) ]

\* write_cell with the two indices exchanged
write_cell_transposed(d, j, k, colour) ==
    IF k \in DOMAIN d /\ j \in DOMAIN d[k] THEN [d EXCEPT ![k][j] = colour] ELSE d

\* self.data[j][k] = function(lattice.spins)
write_cell(d, j, k, colour) == [d EXCEPT ![j][k] = colour]

\* the grid values: np.arange(...)/10. and np.arange(...)/5. in thousandths
FirstValues(n) == [j \in 1..n |-> 100 * (j - 1)]

SecondValues(n) == [k \in 1..n |-> 200 * (k - 1) - 10000]

\* a grid that starts at the point (1.200, -0.500), with the same steps
FirstValuesFrom1200(n) == [j \in 1..n |-> 1200 + 100 * (j - 1)]

SecondValuesFromMinus500(n) == [k \in 1..n |-> 200 * (k - 1) - 500]

\* the `variables` dictionaries handed to DataManager, for a grid shape
Grids(nrows, ncols) ==
    { [first |-> FirstValues(nrows), second |-> SecondValues(ncols)],
      [first |-> FirstValuesFrom1200(nrows), second |-> SecondValuesFromMinus500(ncols)] }

\* spin files of the sweep: every spin along +z, every spin along +x
UpFile == SpinFile([line \in 1..6 |-> <<0, 0, SpinUnit>>])

XFile == SpinFile([line \in 1..6 |-> <<SpinUnit, 0, 0>>])

GridPaths(l1, l2) ==
    {spin_file_path(l1[j], l2[k]) : j \in 1..Len(l1), k \in 1..Len(l2)}

\* DataManager.__init__ on a grid, over a disk on which the structure file
\* and each spin file may be absent
InitSweep ==
    /\ \E nrows \in 1..MaxCells : \E ncols \in 1..(MaxCells \div nrows) :
       \E variables \in Grids(nrows, ncols) :
          /\ var1_list = variables.first
          /\ var2_list = variables.second
          /\ data = [j \in 1..nrows |-> [k \in 1..ncols |-> Zeros3]]
          /\ \E st \in {Missing, EmptyFile, PairFile, TetraFile, HoneycombFile} :
             \E sp \in [GridPaths(variables.first, variables.second)
                           -> {Missing, UpFile, XFile}] :
                fs = [structure |-> st, spin |-> sp]
    /\ classify \in {"data_ferro_spiral_skyrmions", "data_ferro_and_align_with_domain_walls"}
    /\ criteria = NewCriteria
    /\ lattice = NewLattice
    /\ cell = <<1, 1>>
    /\ sweeplog = NoLog
    /\ phase = "sweep"
    /\ SublatticeIdle /\ CriteriaIdle /\ RulesIdle

Body == cell_body(criteria, fs, var1_list[cell[1]], var2_list[cell[2]], classify)

LogOf(b) ==
    [ opened  |-> Append(sweeplog.opened, [cell |-> cell, file |-> b.file]),
      labeled |-> IF b.labeled THEN Append(sweeplog.labeled, cell) ELSE sweeplog.labeled,
      bound   |-> IF b.bound
                  THEN Append(sweeplog.bound, [cell |-> cell, ctx |-> b.criteria])
                  ELSE sweeplog.bound,
      written |-> IF b.raised THEN sweeplog.written ELSE Append(sweeplog.written, cell) ]

\* one pass of the inner loop body that reaches line 56; the loops advance
SweepCell ==
    /\ phase = "sweep"
    /\ LET b == Body
       IN  /\ ~b.raised
           /\ lattice' = b.lattice
           /\ criteria' = b.criteria
           /\ data' = write_cell(data, cell[1], cell[2], b.colour)
           /\ sweeplog' = LogOf(b)
    /\ IF cell[2] < Len(var2_list) THEN cell' = <<cell[1], cell[2] + 1>> /\ phase' = phase
       ELSE IF cell[1] < Len(var1_list) THEN cell' = <<cell[1] + 1, 1>> /\ phase' = phase
       ELSE cell' = cell /\ phase' = "done"
    /\ UNCHANGED <<fs, var1_list, var2_list, classify, spinArg, lastCall, ruleVars,
                   bfs, calls, labelsAfter, dequeued, enqueued>>

\* an exception leaves the loop body, and with it set_data
SweepRaise ==
    /\ phase = "sweep"
    /\ LET b == Body
       IN  /\ b.raised
           /\ lattice' = b.lattice
           /\ criteria' = b.criteria
           /\ sweeplog' = LogOf(b)
    /\ phase' = "raised"
    /\ UNCHANGED <<fs, var1_list, var2_list, classify, data, cell, spinArg, lastCall,
                   ruleVars, bfs, calls, labelsAfter, dequeued, enqueued>>

NextSweep == SweepCell \/ SweepRaise

Spec == InitSweep /\ [][NextSweep]_vars

\* ------------------------------------------------------ sweep: properties
\* every file of the sweep is on disk and the structure has atoms
AllLoadable ==
    /\ fs.structure.exists
    /\ fs.structure.n_atoms > 0
    /\ \A path \in DOMAIN fs.spin : fs.spin[path].exists

\* C1: in a sweep whose files all load with n_atoms > 0, set_sublattice and
\* set_values each run exactly once, at the first grid cell, and from then
\* on the context is the one bound there.
C1_BoundOnceAtFirstCell ==
    (phase \in {"sweep", "done", "raised"} /\ AllLoadable) =>
        IF sweeplog.written = <<>>
        THEN sweeplog.labeled = <<>> /\ sweeplog.bound = <<>> /\ criteria = NewCriteria
        ELSE /\ sweeplog.labeled = << <<1, 1>> >>
             /\ Len(sweeplog.bound) = 1
             /\ sweeplog.bound[1].cell = <<1, 1>>
             /\ criteria = sweeplog.bound[1].ctx
             /\ criteria.len > 0

\* a two by two sweep has run to its end on loadable files
C1_Witness ==
    /\ phase = "done"
    /\ AllLoadable
    /\ Len(var1_list) = 2 /\ Len(var2_list) = 2
    /\ Len(sweeplog.written) = 4
    /\ sweeplog.labeled = << <<1, 1>> >>

\* the cells of an nrows by ncols grid in row-major order
RowMajor(nrows, ncols) ==
    [i \in 1..(nrows * ncols) |-> <<((i - 1) \div ncols) + 1, ((i - 1) % ncols) + 1>>]

\* the spin array load_files yields for grid point (j, k)
LoadedSpins(j, k) ==
    load_files(NewLattice, fs.structure,
               open_spin(fs, spin_file_path(var1_list[j], var2_list[k]))).lat.spins

\* C2: when set_data has completed, data[j][k] is the callable applied to
\* the spins loaded for (var1_list[j], var2_list[k]); the cells were
\* written in row-major order, each exactly once.
C2_GridHoldsClassification ==
    phase = "done" =>
        /\ sweeplog.written = RowMajor(Len(var1_list), Len(var2_list))
        /\ \A j \in 1..Len(var1_list) : \A k \in 1..Len(var2_list) :
              data[j][k] = apply_classify(classify, criteria, LoadedSpins(j, k))

\* a completed two by two sweep whose off-diagonal cells differ
C2_Witness ==
    /\ phase = "done"
    /\ Len(var1_list) = 2 /\ Len(var2_list) = 2
    /\ data[1][2] # data[2][1]
    /\ data[1][2] # Zeros3

\* the structure file or the spin file of the cell at hand is absent
CellFileMissing ==
    \/ ~fs.structure.exists
    \/ ~open_spin(fs, spin_file_path(var1_list[cell[1]], var2_list[cell[2]])).exists

\* C3: a missing structure or spin file, at the first cell or a later one,
\* is not fatal: no exception leaves set_data at a cell whose file is absent.
C3_MissingFileNotFatal ==
    phase = "raised" => ~CellFileMissing

\* ------------------------------------------------- loading into a Lattice
\* a spin file with fewer lines than any structure has atoms
ShortFile == SpinFile(<< <<0, 0, 0 - SpinUnit>> >>)

InitLoad ==
    /\ lattice = NewLattice
    /\ criteria = NewCriteria
    /\ phase = "idle"
    /\ SublatticeIdle /\ CriteriaIdle /\ RulesIdle /\ SweepIdle

LoadCall(st, sp) ==
    LET r == load_files(lattice, st, sp)
    IN  /\ lattice' = r.lat
        /\ lastCall' = [ name   |-> "load_files",
                         result |-> [ structure_exists |-> st.exists,
                                      spin_exists      |-> sp.exists,
                                      before           |-> lattice,
                                      raised           |-> r.raised ] ]
        /\ UNCHANGED <<criteria, spinArg, phase, bfs, calls, labelsAfter, dequeued,
                       enqueued, ruleVars, sweepVars>>

\* load_files with both files on disk
LoadFound ==
    \E st \in NamedStructures : \E sp \in {UpFile, XFile, ShortFile} : LoadCall(st, sp)

\* load_files with the structure file, the spin file or both absent
LoadNotFound ==
    \E st \in NamedStructures \cup {Missing} : \E sp \in {UpFile, Missing} :
        (~st.exists \/ ~sp.exists) /\ LoadCall(st, sp)

\* set_sublattice on the loaded Lattice, as GraphMaker.plot_spins calls it
LabelLoaded ==
    /\ CanSeed(lattice)
    /\ lattice' = set_sublattice(lattice)
    /\ lastCall' = [name |-> "set_sublattice", result |-> <<>>]
    /\ UNCHANGED <<criteria, spinArg, phase, bfs, calls, labelsAfter, dequeued,
                   enqueued, ruleVars, sweepVars>>

NextLoad == LoadFound \/ LoadNotFound \/ LabelLoaded

SpecLoad == InitLoad /\ [][NextLoad]_vars

\* the per-atom arrays are zero-length; dimensions keeps its np.zeros(3)
EmptyLattice(lat) ==
    /\ lat.n_atoms = 0
    /\ lat.position = <<>> /\ lat.vecinos = <<>> /\ lat.spins = <<>>
    /\ lat.sublattice = <<>>
    /\ lat.dimensions = Zeros3 /\ lat.size = 0

FirstMatch(n, Matches(_)) ==
    IF \E i \in 1..n : Matches(i)
    THEN CHOOSE i \in 1..n : Matches(i) /\ \A h \in 1..(i - 1) : ~Matches(h)
    ELSE 0

\* the order of the rules of data_ferro_spiral_skyrmions
SkyrmionRules ==
    << [pred |-> "ferro_in_z",       colour |-> Yellow],
       [pred |-> "antiferro_in_z",   colour |-> Green],
       [pred |-> "ferro_in_xy",      colour |-> Pink],
       [pred |-> "antiferro_in_xy",  colour |-> SkyBlue],
       [pred |-> "globally_conical", colour |-> Lavender],
       [pred |-> "locally_conical",  colour |-> LightRed] >>

SkyrmionFirst(o) ==
    LET Matches(i) == o[SkyrmionRules[i].pred] IN FirstMatch(Len(SkyrmionRules), Matches)

\* C5: data_ferro_spiral_skyrmions returns the colour of the earliest rule,
\* in the order ferro-Z, antiferro-Z, ferro-XY, antiferro-XY, globally
\* conical, locally conical, whose predicate is true, and white when none is.
C5_SkyrmionsFirstMatch ==
    color.table = "skyrmions" =>
        LET i == SkyrmionFirst(outcomes)
        IN  color.value = IF i = 0 THEN White ELSE SkyrmionRules[i].colour

\* both conical predicates hold and no alignment predicate does
C5_Witness ==
    /\ color.table = "skyrmions"
    /\ outcomes["globally_conical"] /\ outcomes["locally_conical"]
    /\ SkyrmionFirst(outcomes) = 5
    /\ color.value = Lavender

\* the ten rules of data_ferro_and_align_with_domain_walls, in order
WallRule(i, o) ==
    CASE i = 1  -> o.antiferro_local /\ ~o.z_aligned /\ ~o.xy_aligned
      [] i = 2  -> o.z_aligned /\ ~o.ferro_local /\ ~o.antiferro_local
      [] i = 3  -> o.xy_aligned /\ ~o.ferro_local /\ ~o.antiferro_local
      [] i = 4  -> o.ferro_local /\ ~o.z_aligned /\ ~o.xy_aligned
      [] i = 5  -> o.ferro_in_z
      [] i = 6  -> o.antiferro_in_z
      [] i = 7  -> o.ferro_in_xy
      [] i = 8  -> o.antiferro_in_xy
      [] i = 9  -> o.ferro_local /\ o.z_aligned /\ o.domain_wall
      [] i = 10 -> o.antiferro_local /\ o.z_aligned /\ o.domain_wall

WallColours ==
    <<Cyan, LightGreen, Lavender, LightRed, Yellow, Green, Pink, SkyBlue, Orange, DarkGreen>>

WallFirst(o) ==
    LET Matches(i) == WallRule(i, o) IN FirstMatch(Len(WallColours), Matches)

\* C6: data_ferro_and_align_with_domain_walls returns the colour of the
\* first of its ten ordered rules that matches, black when none matches and
\* the configuration is random, white otherwise; the twelve colours are
\* pairwise distinct, so the colour names the first matching rule.
C6_WallsFirstMatch ==
    /\ Cardinality({WallColours[i] : i \in 1..Len(WallColours)} \cup {Black, White}) = 12
    /\ color.table = "walls" =>
           LET i == WallFirst(outcomes)
           IN  /\ color.value = IF i # 0 THEN WallColours[i]
                                 ELSE IF outcomes["random"] THEN Black ELSE White
               /\ \A h \in 1..Len(WallColours) : color.value = WallColours[h] <=> h = i

\* a ferromagnetic domain wall that also satisfies a later and an earlier
\* unrelated predicate: rule 9 is the first to match
C6_Witness ==
    /\ color.table = "walls"
    /\ WallFirst(outcomes) = 9
    /\ outcomes["antiferro_local"] /\ outcomes["random"]
    /\ color.value = Orange

SkyrmionColourSet == {Yellow, Green, Pink, SkyBlue, Lavender, LightRed, White}

WallColourSet ==
    {Cyan, LightGreen, Lavender, LightRed, Yellow, Green, Pink, SkyBlue, Orange,
     DarkGreen, Black, White}

\* C7: for every combination of predicate outcomes each rule table returns a
\* colour of its own colour set (fallbacks included).
C7_TablesTotal ==
    /\ color.table = "skyrmions" => color.value \in SkyrmionColourSet
    /\ color.table = "walls" => color.value \in WallColourSet

\* no predicate holds: the second table falls through to its fallback
C7_Witness ==
    /\ color.table = "skyrmions"
    /\ \A name \in OutcomeNames : ~outcomes[name]
    /\ color.value = White

\* ------------------------------------------------ neighbour-graph notions
VecinosOf(lat, a) == {lat.vecinos[a][c] : c \in 1..NVecinos}

RECURSIVE ReachFrom(_, _)
ReachFrom(lat, S) ==
    LET T == S \cup UNION {VecinosOf(lat, a) : a \in S}
    IN  IF T = S THEN S ELSE ReachFrom(lat, T)

\* atoms reachable from atom 0 along neighbour links
Reachable(lat) == ReachFrom(lat, {0})

Symmetric(lat) ==
    \A a \in Atoms(lat.n_atoms) : \A b \in VecinosOf(lat, a) : a \in VecinosOf(lat, b)

LoopFree(lat) == \A a \in Atoms(lat.n_atoms) : a \notin VecinosOf(lat, a)

\* no odd cycle: some two-colouring separates every atom from its neighbours
Bipartite(lat) ==
    \E col \in [Atoms(lat.n_atoms) -> {1, -1}] :
        \A a \in Atoms(lat.n_atoms) : \A b \in VecinosOf(lat, a) : col[b] = 0 - col[a]

FirstCallDone == calls = 1 /\ phase = "idle"

AllReachableLabeled(lat) == \A a \in Reachable(lat) : lat.sublattice[a] \in {1, -1}

LabeledHaveOpposite(lat) ==
    \A a \in Atoms(lat.n_atoms) :
        lat.sublattice[a] # 0 =>
            \E b \in VecinosOf(lat, a) : lat.sublattice[b] = 0 - lat.sublattice[a]

\* C9 as stated: after set_sublattice completes on any in-range neighbour
\* graph (adjacency not assumed symmetric), every atom reachable from atom 0
\* is labeled +1 or -1 and every labeled atom has a neighbour whose final
\* label is the negation of its own.
C9_AnyGraphLabeled ==
    FirstCallDone => AllReachableLabeled(lattice) /\ LabeledHaveOpposite(lattice)

\* C9 amended: the same, on neighbour graphs whose adjacency is symmetric and
\* in which no atom is its own neighbour.
C9_SymmetricGraphLabeled ==
    (FirstCallDone /\ Symmetric(lattice) /\ LoopFree(lattice))
        => AllReachableLabeled(lattice) /\ LabeledHaveOpposite(lattice)

\* a symmetric loop-free graph with an odd cycle has been labeled
C9_Witness ==
    /\ FirstCallDone
    /\ Symmetric(lattice) /\ LoopFree(lattice)
    /\ lattice.n_atoms = 4
    /\ ~Bipartite(lattice)

\* C10 as stated: for any neighbour graph a second set_sublattice call on the
\* same Lattice yields the label array of the first call.
C10_IdempotentAnyGraph ==
    Len(labelsAfter) = 2 => labelsAfter[2] = labelsAfter[1]

\* C10 amended: a second call yields the first call's label array on every
\* neighbour graph that is symmetric and bipartite (has no odd cycle).
C10_IdempotentBipartite ==
    (Len(labelsAfter) = 2 /\ Symmetric(lattice) /\ Bipartite(lattice))
        => labelsAfter[2] = labelsAfter[1]

\* the second call has returned on the six-atom honeycomb cell
C10_Witness ==
    /\ Len(labelsAfter) = 2
    /\ Symmetric(lattice) /\ Bipartite(lattice)
    /\ lattice.n_atoms = 6
    /\ \E a \in Atoms(6) : labelsAfter[2][a] = -1


\* ------------------------------------------------ proper two-colourings
Connected(lat) == Reachable(lat) = Atoms(lat.n_atoms)

ProperColoring(lat, labels) ==
    /\ labels[0] = 1
    /\ \A a \in Atoms(lat.n_atoms) :
          /\ labels[a] \in {1, -1}
          /\ \A b \in VecinosOf(lat, a) : labels[a] = 0 - labels[b]

\* C11: on a neighbour graph that is symmetric, bipartite and connected from
\* atom 0, every completed set_sublattice call leaves a proper 2-colouring:
\* atom 0 has label +1, every atom has label +1 or -1, and every atom's label
\* is the negation of the label of each of its neighbours.
C11_ProperTwoColoring ==
    (Symmetric(lattice) /\ Bipartite(lattice) /\ Connected(lattice))
        => \A k \in 1..Len(labelsAfter) : ProperColoring(lattice, labelsAfter[k])

\* the 2-atom graph with mutual neighbours has been labeled [+1, -1]
C11_Witness ==
    /\ FirstCallDone
    /\ lattice.n_atoms = 2
    /\ Symmetric(lattice) /\ Bipartite(lattice) /\ Connected(lattice)
    /\ labelsAfter[1] = [a \in Atoms(2) |-> IF a = 0 THEN 1 ELSE -1]
    /\ lattice.sublattice = labelsAfter[1]


\* ------------------------------------- which labeled neighbour decides
\* the atom the next loop iteration takes from the queue
ProcessedNode == Head(bfs.queue)

\* positions in the atom's neighbour row whose atom carries a nonzero label
LabeledColumns(lat, node) ==
    {c \in 1..NVecinos : lat.sublattice[lat.vecinos[node][c]] # 0}

\* the loop is about to process an atom that is not its own neighbour and
\* has at least two neighbour entries that carry a label
SeveralLabeled ==
    /\ phase = "running"
    /\ bfs.queue # <<>>
    /\ ProcessedNode \notin VecinosOf(lattice, ProcessedNode)
    /\ Cardinality(LabeledColumns(lattice, ProcessedNode)) >= 2

NegatedLabelAt(c) == 0 - lattice.sublattice[lattice.vecinos[ProcessedNode][c]]

\* C15 as stated: when the atom being processed has several neighbours that
\* already carry a nonzero label, the label it has after its iteration is the
\* negation of the label of the first such neighbour in neighbour-array
\* order (read for atoms that are not their own neighbour).
C15_FirstLabeledDecides ==
    [][SeveralLabeled =>
          lattice'.sublattice[ProcessedNode]
              = NegatedLabelAt(SetMin(LabeledColumns(lattice, ProcessedNode)))]_vars

\* C15 amended: in that case the label the atom has after its iteration is
\* the negation of the label of the last such neighbour in neighbour-array
\* order.
C15_LastLabeledDecides ==
    [][SeveralLabeled =>
          lattice'.sublattice[ProcessedNode]
              = NegatedLabelAt(SetMax(LabeledColumns(lattice, ProcessedNode)))]_vars

\* on the 4-atom complete graph atom 2 has just been processed: its
\* neighbours 0 and 1, in that array order, carry +1 and -1
C15_Witness ==
    /\ phase = "running"
    /\ lattice.n_atoms = 4
    /\ dequeued = <<0, 1, 2>>
    /\ lattice.vecinos[2][1] = 0 /\ lattice.vecinos[2][2] = 1
    /\ lattice.sublattice[0] = 1 /\ lattice.sublattice[1] = -1
    /\ lattice.sublattice[3] = 0
    /\ lattice.sublattice[2] = 1


\* ------------------------------------------------- the traversal's extent
Range(s) == {s[i] : i \in 1..Len(s)}

NoRepeats(s) == \A i, j \in 1..Len(s) : s[i] = s[j] => i = j

Labeled(lat) == {a \in Atoms(lat.n_atoms) : lat.sublattice[a] # 0}

\* the call under way, or the one that last returned, ran on fresh labels
OnFreshLabels == calls = 0 \/ FirstCallDone

TraversalBounded ==
    /\ NoRepeats(enqueued)
    /\ NoRepeats(dequeued)
    /\ Len(dequeued) <= lattice.n_atoms
    /\ Range(dequeued) \subseteq Range(enqueued)
    /\ Range(enqueued) \subseteq Reachable(lattice)
    /\ OnFreshLabels =>
          /\ Labeled(lattice) \subseteq Range(dequeued) \cup {0}
          /\ phase = "idle" => Labeled(lattice) \subseteq Range(dequeued)
          /\ \A a \in Atoms(lattice.n_atoms) \ Reachable(lattice) :
                lattice.sublattice[a] = 0

\* C19: on every neighbour graph with in-range indices (cycles, self-loops
\* and asymmetric adjacency included) a started set_sublattice call returns;
\* each atom is enqueued at most once, at most n_atoms atoms are dequeued,
\* on fresh labels only atoms that are dequeued (hence reachable from atom
\* 0) get a nonzero label, and atoms unreachable from atom 0 keep label 0.
C19_TraversalTerminates ==
    /\ []TraversalBounded
    /\ (phase = "running") ~> (phase = "idle")

\* the first call has returned on a 2-atom graph with a self-loop and
\* one-way adjacency in which atom 1 cannot be reached from atom 0
C19_Witness ==
    /\ FirstCallDone
    /\ lattice.n_atoms = 2
    /\ 0 \in VecinosOf(lattice, 0)
    /\ ~Symmetric(lattice)
    /\ Reachable(lattice) = {0}
    /\ dequeued = <<0>>
    /\ lattice.sublattice[1] = 0


\* ------------------------------------------ perfect textures, classified
IsFerroTexture == spinArg = FerroTexture(criteria.len)

IsNeelTexture == spinArg = NeelTexture(criteria.sublattice)

ZCallReturned(name, value) == lastCall.name = name => lastCall.result = value

FerroTextureVerdict ==
    /\ ZCallReturned("is_ferro_z_aligned", TRUE)
    /\ ZCallReturned("is_antiferro_z_aligned", FALSE)

NeelTextureVerdict ==
    /\ ZCallReturned("is_antiferro_z_aligned", TRUE)
    /\ ZCallReturned("is_ferro_z_aligned", FALSE)

\* C12 as stated: for the perfect ferromagnetic configuration on any
\* non-empty lattice whose context was bound with the labels produced by
\* set_sublattice, is_ferro_z_aligned returns true and
\* is_antiferro_z_aligned returns false.
C12_FerroOnAnyLattice == IsFerroTexture => FerroTextureVerdict

\* C12 amended: the same, on lattices whose neighbour graph is symmetric and
\* has no atom as its own neighbour.
C12_FerroOnSymmetricLattice ==
    (IsFerroTexture /\ Symmetric(lattice) /\ LoopFree(lattice)) => FerroTextureVerdict

\* is_antiferro_z_aligned has answered for the ferromagnetic configuration
\* on the labeled 6-atom honeycomb cell
C12_Witness ==
    /\ IsFerroTexture
    /\ Symmetric(lattice) /\ LoopFree(lattice)
    /\ criteria.len = 6
    /\ lastCall = [name |-> "is_antiferro_z_aligned", result |-> FALSE]

\* C13 as stated: for the perfect Neel configuration (spin i equal to
\* sublattice_i * (0,0,1), with the labels produced by set_sublattice and
\* bound into the context) on any non-empty lattice, is_antiferro_z_aligned
\* returns true and is_ferro_z_aligned returns false.
C13_NeelOnAnyLattice == IsNeelTexture => NeelTextureVerdict

\* C13 amended: the same, on lattices whose neighbour graph is symmetric,
\* has no atom as its own neighbour and is connected from atom 0.
C13_NeelOnConnectedLattice ==
    (IsNeelTexture /\ Symmetric(lattice) /\ LoopFree(lattice) /\ Connected(lattice))
        => NeelTextureVerdict

\* is_ferro_z_aligned has answered for the Neel configuration on the labeled
\* 6-atom honeycomb cell, which has atoms on both sublattices
C13_Witness ==
    /\ IsNeelTexture
    /\ Symmetric(lattice) /\ LoopFree(lattice) /\ Connected(lattice)
    /\ criteria.len = 6
    /\ \E a, b \in Atoms(6) : spinArg[a][3] = SpinUnit /\ spinArg[b][3] = 0 - SpinUnit
    /\ lastCall = [name |-> "is_ferro_z_aligned", result |-> FALSE]


\* --------------------------------------------------- the resolved path
\* the grid point of a cell
PointOf(c) == [var1 |-> var1_list[c[1]], var2 |-> var2_list[c[2]]]

\* the four name parts and the two formatted values of a grid point, joined
\* with nothing between them
PartsJoined(pt) ==
    dir_prefix \o name_prefix \o var1_name \o var_to_str(pt.var1)
        \o var2_name \o var_to_str(pt.var2)

\* the same with one "/" between dir_prefix and the file prefix
PartsJoinedAfterSlash(pt) ==
    dir_prefix \o <<"/">> \o name_prefix \o var1_name \o var_to_str(pt.var1)
        \o var2_name \o var_to_str(pt.var2)

SpinSuffix == <<"_", "s", "p", "i", "n">>

\* "x/out_DM1.200_K-0.500"
ExamplePath ==
    << "x", "/", "o", "u", "t", "_", "D", "M", "1", ".", "2", "0", "0",
       "_", "K", "-", "0", ".", "5", "0", "0" >>

\* "x//out_DM1.200_K-0.500"
ExamplePathAfterSlash ==
    << "x", "/", "/", "o", "u", "t", "_", "D", "M", "1", ".", "2", "0", "0",
       "_", "K", "-", "0", ".", "5", "0", "0" >>

IsExamplePoint(pt) == pt.var1 = 1200 /\ pt.var2 = -500

\* C14 as stated: the path the sweep resolves for a grid point is exactly
\* dir_prefix + file_prefix + var1_name + format(var1) + var2_name +
\* format(var2), nothing inserted between the parts, followed by "_spin";
\* for "x/", "out", "_DM", "_K" and the values 1.200 and -0.500 the path
\* before the suffix is "x/out_DM1.200_K-0.500".
C14_PathIsPlainConcatenation ==
    \A i \in 1..Len(sweeplog.opened) :
        LET o == sweeplog.opened[i]
        IN  /\ o.file = PartsJoined(PointOf(o.cell)) \o SpinSuffix
            /\ IsExamplePoint(PointOf(o.cell)) => o.file = ExamplePath \o SpinSuffix

\* C14 amended: the path is dir_prefix + "/" + file_prefix + var1_name +
\* format(var1) + var2_name + format(var2) followed by "_spin"; for the
\* example the path before the suffix is "x//out_DM1.200_K-0.500".
C14_PathHasSlashAfterPrefix ==
    \A i \in 1..Len(sweeplog.opened) :
        LET o == sweeplog.opened[i]
        IN  /\ o.file = PartsJoinedAfterSlash(PointOf(o.cell)) \o SpinSuffix
            /\ IsExamplePoint(PointOf(o.cell))
                  => o.file = ExamplePathAfterSlash \o SpinSuffix

\* the sweep has resolved the path of the grid point (1.200, -0.500) and of
\* a second point after it
C14_Witness ==
    /\ Len(sweeplog.opened) >= 2
    /\ IsExamplePoint(PointOf(sweeplog.opened[1].cell))
    /\ ~IsExamplePoint(PointOf(sweeplog.opened[2].cell))


\* ------------------------------------------- the two outputs of is_xyz_aligned
\* the bound contexts and spin arrays the Criteria methods are called with
BoundContexts ==
    {bind(NewCriteria, load_files(NewLattice, f, NoSpins).lat).criteria :
        f \in {PairFile, TetraFile}}

SpinArrays(ctx) == [Atoms(ctx.len) -> SpinVals]

\* C16 as stated: the two outputs of is_xyz_aligned are not mutually
\* exclusive: there is a spin configuration on a non-empty lattice for which
\* is_xyz_aligned returns (true, true) -- on the lattice at hand or on
\* another one.
C16_BothOutputsTrueSomewhere ==
    \E ctx \in {criteria} \cup BoundContexts : \E s \in SpinArrays(ctx) :
        is_xyz_aligned(ctx, s) = <<TRUE, TRUE>>

\* C16 amended: the two outputs are mutually exclusive on a non-empty
\* lattice: no call of is_xyz_aligned returns (true, true).
C16_OutputsExclusive ==
    lastCall.name = "is_xyz_aligned" => lastCall.result # <<TRUE, TRUE>>

\* is_xyz_aligned has returned (true, false) on four atoms of which three
\* have |S.z| = 1 and one lies in the plane
C16_Witness ==
    /\ criteria.len = 4
    /\ lastCall = [name |-> "is_xyz_aligned", result |-> <<TRUE, FALSE>>]
    /\ Cardinality({a \in Atoms(4) : spinArg[a][3] = 0}) = 1


\* ------------------------------------- domain_wall_ferro_z_align and order
\* the renumberings of n atoms
Renumberings(n) ==
    {p \in [Atoms(n) -> Atoms(n)] : \A a, b \in Atoms(n) : p[a] = p[b] => a = b}

\* the context and the spin array with atom p[a] moved to index a: the same
\* (sublattice label, spin) pairs, visited in another order
RenumberedContext(ctx, p) ==
    [ctx EXCEPT !.sublattice = [a \in Atoms(ctx.len) |-> ctx.sublattice[p[a]]]]

RenumberedSpins(ctx, s, p) == [a \in Atoms(ctx.len) |-> s[p[a]]]

SameUnderRenumbering(ctx, s) ==
    \A p \in Renumberings(ctx.len) :
        domain_wall_ferro_z_align(RenumberedContext(ctx, p), RenumberedSpins(ctx, s, p))
            = domain_wall_ferro_z_align(ctx, s)

\* C17 as stated: the result of domain_wall_ferro_z_align depends on the
\* atom-index scan order: there are a bound context (the one at hand or
\* another) and two spin configurations that differ only by a renumbering of
\* the atoms for which it returns different results.
C17_ResultDependsOnOrder ==
    \E ctx \in {criteria} \cup BoundContexts : \E s \in SpinArrays(ctx) :
        ~SameUnderRenumbering(ctx, s)

\* C17 amended: the result does not depend on the scan order: whatever
\* domain_wall_ferro_z_align returns, it returns for every renumbering of
\* the atoms of the same (sublattice label, spin) pairs.
C17_ResultIndependentOfOrder ==
    lastCall.name = "domain_wall_ferro_z_align"
        => /\ lastCall.result = domain_wall_ferro_z_align(criteria, spinArg)
           /\ SameUnderRenumbering(criteria, spinArg)

\* domain_wall_ferro_z_align has returned true on the 4-atom lattice whose
\* +1 sublattice holds a spin along +z at the lower index and one along -z
\* at the higher
C17_Witness ==
    /\ criteria.len = 4
    /\ lastCall = [name |-> "domain_wall_ferro_z_align", result |-> TRUE]
    /\ \E a, b \in Atoms(4) :
          /\ a < b
          /\ criteria.sublattice[a] = 1 /\ criteria.sublattice[b] = 1
          /\ spinArg[a][3] = SpinUnit /\ spinArg[b][3] = 0 - SpinUnit


\* ------------------------------------------------ the is_conical scan
\* the state the scan of the last call ended in, and the states it went
\* through (the caller's array is read, never written)
ScanEnd == conical_scan(conical_start(criteria, spinArg), criteria.vecinos, 0, 1)

ScanSteps == conical_steps(conical_start(criteria, spinArg), criteria.vecinos, 0, 1)

Norm2(v) == Dot(v, v)

\* the mean of |S_i . rotation_vec| over all atoms as the fraction
\* sum / over, in units of 1 / |rotation_vec| of the scanned state st
MeanOverAtoms(st) ==
    [ sum  |-> SumUpTo([a \in Atoms(criteria.len) |-> Abs(Dot(spinArg[a], st.rotation_vec))],
                       criteria.len),
      over |-> criteria.len ]

SameFraction(p, q) == p.sum * q.over = q.sum * p.over

BelowTenth(p, st) ==
    100 * p.sum * p.sum < SpinUnit * SpinUnit * p.over * p.over * Norm2(st.rotation_vec)

\* C18: in is_conical, when at least one neighbour pair has |cross| > 0.01,
\* locally_conical is (mean of |S_i . rotation_vec| over all atoms) < 0.1,
\* the mean being the sum over all atoms divided by n_atoms; consequently
\* whenever globally_conical is true, locally_conical is true as well.
C18_MeanOverAtoms ==
    (lastCall.name = "is_conical" /\ ScanEnd.count > 0)
        => /\ SameFraction(mean_dot_value(ScanEnd), MeanOverAtoms(ScanEnd))
           /\ lastCall.result[1] = BelowTenth(MeanOverAtoms(ScanEnd), ScanEnd)
           /\ lastCall.result[2] => lastCall.result[1]

\* C20: in the neighbour-pair scan of is_conical every step that accumulates
\* a cross product strictly increases the squared norm of rotation_vec and
\* no step decreases it, so whenever the rotation-pair counter is positive
\* at the end of the scan rotation_vec is non-zero (the normalisation does
\* not divide by zero).
C20_RotationVecGrows ==
    lastCall.name = "is_conical"
        => /\ \A k \in 1..(Len(ScanSteps) - 1) :
                 LET before == ScanSteps[k]
                     after  == ScanSteps[k + 1]
                 IN  /\ Norm2(after.rotation_vec) >= Norm2(before.rotation_vec)
                     /\ after.count > before.count
                           => Norm2(after.rotation_vec) > Norm2(before.rotation_vec)
           /\ ScanSteps[Len(ScanSteps)] = ScanEnd
           /\ ScanEnd.count > 0 => Norm2(ScanEnd.rotation_vec) > 0

\* is_conical has returned after a scan on four atoms in which a cross
\* product was flipped before being accumulated: some accumulating step
\* added a vector that is not the cross product of the pair's spins in the
\* order visited, and some other step accumulated nothing
C20_Witness ==
    /\ lastCall.name = "is_conical"
    /\ criteria.len = 4
    /\ Len(ScanSteps) = 13
    /\ \E k \in 1..12 :
          /\ ScanSteps[k + 1].count > ScanSteps[k].count
          /\ Dot(ScanSteps[k + 1].rotation_vec, ScanSteps[k].rotation_vec)
                 > Norm2(ScanSteps[k].rotation_vec)
    /\ \E k \in 1..12 : ScanSteps[k + 1].count = ScanSteps[k].count
    /\ ScanEnd.count < 12

=============================================================================
